---- MODULE Spec2Model ----
(***************************************************************************)
(* pysyquantis: QuantisGenerator (src/pysyquantis/core.py), the wrapper    *)
(* around the easyquantis command line tool.                               *)
(*                                                                         *)
(* The state is the generator's configuration, the file system the calls   *)
(* act on, and, for each caller, the position of its call in the           *)
(* validate -> build arguments -> execute pipeline.  Every step is one     *)
(* file-system or process interaction of the code, so that calls issued    *)
(* concurrently interleave at the points where the real ones do.           *)
(***************************************************************************)
EXTENDS Integers, Sequences, FiniteSets, TLC

VARIABLES
    usb_device_index,   \* self.usb_device_index
    easyquantis_path,   \* self.easyquantis_path
    test_mode,          \* self.test_mode
    fs,                 \* the file system: node name -> node
    pc,                 \* per caller: position of its call
    op,                 \* per caller: the public operation it called
    req,                \* per caller: the generation request being served
    args,               \* per caller: the argument list built for _execute_command
    idx,                \* per caller: loop index of the test-mode scan of args
    trace,              \* per caller: file and process interactions of the call
    proc,               \* per caller: what subprocess.run did
    result,             \* per caller: how the call ended
    prev,               \* per caller: how the same call ended just before, when it is a repeat
    cli,                \* per caller: the command line invocation it runs, if any
    fs0                 \* per caller: the file system as its call found it

vars == <<usb_device_index, easyquantis_path, test_mode, fs,
          pc, op, req, args, idx, trace, proc, result, prev, cli, fs0>>

config == <<usb_device_index, easyquantis_path, test_mode>>

(***************************************************************************)
(* Bounds of the exploration.                                              *)
(***************************************************************************)
MaxCount  == 11     \* largest count a caller passes
MaxVal    == 1      \* largest min/max bound a caller passes
MaxDevice == 1      \* largest usb device index configured

Callers == {1, 2}

(***************************************************************************)
(* Text: str() of numbers, joining, searching.                             *)
(***************************************************************************)
Digits == "0123456789"

CharAt(s, i) == SubSeq(s, i, i)

RECURSIVE NatStr(_)
NatStr(n) ==
    IF n < 10 THEN CharAt(Digits, n + 1)
    ELSE NatStr(n \div 10) \o CharAt(Digits, (n % 10) + 1)

\* str(n) of an int
Str(n) == IF n < 0 THEN "-" \o NatStr(0 - n) ELSE NatStr(n)

\* str(x) of a float given in tenths: 5 is 0.5, 10 is 1.0, -5 is -0.5
FloatStr(t) ==
    LET a == IF t < 0 THEN 0 - t ELSE t
    IN  (IF t < 0 THEN "-" ELSE "") \o NatStr(a \div 10) \o "." \o NatStr(a % 10)

RECURSIVE Join(_, _)
\* sep.join(parts)
Join(parts, sep) ==
    IF parts = <<>> THEN ""
    ELSE IF Len(parts) = 1 THEN parts[1]
    ELSE parts[1] \o sep \o Join(Tail(parts), sep)

\* sub in s
Contains(s, sub) ==
    \E i \in 1..(Len(s) - Len(sub) + 1) : SubSeq(s, i, i + Len(sub) - 1) = sub

(***************************************************************************)
(* Paths: pathlib's normalisation and the kernel's resolution.             *)
(***************************************************************************)
RECURSIVE PartsFrom(_, _, _)
\* the components of s from position i on, cur being the one in progress;
\* empty components and "." are dropped
PartsFrom(s, i, cur) ==
    LET done == IF cur \in {"", "."} THEN <<>> ELSE <<cur>>
    IN  IF i > Len(s) THEN done
        ELSE IF CharAt(s, i) = "/" THEN done \o PartsFrom(s, i + 1, "")
        ELSE PartsFrom(s, i + 1, cur \o CharAt(s, i))

Parts(s) == PartsFrom(s, 1, "")

RECURSIVE LeadingSlashes(_, _)
LeadingSlashes(s, i) ==
    IF i <= Len(s) /\ CharAt(s, i) = "/" THEN 1 + LeadingSlashes(s, i + 1) ELSE 0

\* the root pathlib keeps: exactly two leading slashes stay two
Root(s) ==
    LET n == LeadingSlashes(s, 1)
    IN  IF n = 0 THEN "" ELSE IF n = 2 THEN "//" ELSE "/"

FromParts(root, parts) ==
    IF root = "" /\ parts = <<>> THEN "." ELSE root \o Join(parts, "/")

\* str(Path(s))
PathStr(s) == FromParts(Root(s), Parts(s))

\* str(Path(s).parent)
ParentStr(s) ==
    LET ps == Parts(s)
    IN  IF ps = <<>> THEN PathStr(s)
        ELSE FromParts(Root(s), SubSeq(ps, 1, Len(ps) - 1))

\* str(Path(s).parent / ".write_test")
MarkerStr(s) ==
    LET ps == Parts(s)
        pp == IF ps = <<>> THEN ps ELSE SubSeq(ps, 1, Len(ps) - 1)
    IN  FromParts(Root(s), pp \o <<".write_test">>)

\* the node a path names for the kernel: any run of slashes is one
Resolve(s) ==
    FromParts(IF LeadingSlashes(s, 1) = 0 THEN "" ELSE "/", Parts(s))

(***************************************************************************)
(* The file system.  A node is absent, a directory, a regular file or a    *)
(* device that discards what is written to it.                             *)
(***************************************************************************)
Absent       == [type |-> "absent", data |-> "", writable |-> FALSE]
Dir(w)       == [type |-> "dir", data |-> "", writable |-> w]
File(d, w)   == [type |-> "file", data |-> d, writable |-> w]
NullDevice   == [type |-> "dev", data |-> "", writable |-> TRUE]

Nodes == {"/", "/d", "/d/a", "/d/b", "/d/.write_test", "/f", "/r", "/r/.write_test",
          "/dev", "/dev/null", ".", ".write_test", "nul", "-b", "-n"}

Lookup(f, n) == IF n \in DOMAIN f THEN f[n] ELSE Absent

ParentNode(n) == Resolve(ParentStr(n))

\* a new entry can be made in n's directory
CanCreate(f, n) ==
    LET d == Lookup(f, ParentNode(n)) IN d.type = "dir" /\ d.writable

\* os.path.exists / Path.exists
Exists(f, path) == Lookup(f, Resolve(path)).type # "absent"

\* Path.is_dir
IsDir(f, path) == Lookup(f, Resolve(path)).type = "dir"

Done(f)       == [err |-> "", fs |-> f]
Failed(e, f)  == [err |-> e, fs |-> f]

\* Path.touch(): an existing node only gets a new time stamp, a missing one
\* is created empty
Touch(f, path) ==
    LET n == Resolve(path) IN
    IF Lookup(f, n).type # "absent" THEN Done(f)
    ELSE IF Lookup(f, ParentNode(n)).type = "absent" THEN Failed("FileNotFoundError", f)
    ELSE IF ~CanCreate(f, n) THEN Failed("PermissionError", f)
    ELSE Done([f EXCEPT ![n] = File("", TRUE)])

\* Path.unlink()
Unlink(f, path) ==
    LET n == Resolve(path) IN
    IF Lookup(f, n).type = "absent" THEN Failed("FileNotFoundError", f)
    ELSE IF Lookup(f, n).type = "dir" THEN Failed("IsADirectoryError", f)
    ELSE IF ~CanCreate(f, n) THEN Failed("PermissionError", f)
    ELSE Done([f EXCEPT ![n] = Absent])

\* an open in append mode: what the file held stays in front
OpenWrite_Appending(f, path, data) ==
    LET n    == Resolve(path)
        node == Lookup(f, n)
    IN  IF node.type = "dir" THEN Failed("IsADirectoryError", f)
        ELSE IF node.type = "dev" THEN Done(f)
        ELSE IF node.type = "file" THEN
            IF node.writable THEN Done([f EXCEPT ![n] = File(node.data \o data, TRUE)])
            ELSE Failed("PermissionError", f)
        ELSE IF Lookup(f, ParentNode(n)).type = "absent" THEN Failed("FileNotFoundError", f)
        ELSE IF ~CanCreate(f, n) THEN Failed("PermissionError", f)
        ELSE Done([f EXCEPT ![n] = File(data, TRUE)])

\* with open(path, "w") as f: f.write(data)
OpenWrite(f, path, data) ==
    LET n    == Resolve(path)
        node == Lookup(f, n)
    IN  IF node.type = "dir" THEN Failed("IsADirectoryError", f)
        ELSE IF node.type = "dev" THEN Done(f)
        ELSE IF node.type = "file" THEN
            IF node.writable THEN Done([f EXCEPT ![n] = File(data, TRUE)])
            ELSE Failed("PermissionError", f)
        ELSE IF Lookup(f, ParentNode(n)).type = "absent" THEN Failed("FileNotFoundError", f)
        ELSE IF ~CanCreate(f, n) THEN Failed("PermissionError", f)
        ELSE Done([f EXCEPT ![n] = File(data, TRUE)])

\* the file systems a run starts from
EmptyFs == [n \in Nodes |-> Absent]

BaseFs == [EmptyFs EXCEPT !["/"] = Dir(FALSE), !["/d"] = Dir(TRUE), !["/f"] = File("content", TRUE),
                          !["/r"] = Dir(FALSE), !["."] = Dir(TRUE)]

PosixFs == [BaseFs EXCEPT !["/dev"] = Dir(FALSE), !["/dev/null"] = NullDevice]

\* nothing written yet
FreshFs == PosixFs

\* an earlier output and earlier files named like the probe's marker
UsedFs == [PosixFs EXCEPT !["/d/a"] = File("old", TRUE), !["/d/.write_test"] = File("keep", TRUE),
                          !["/r/.write_test"] = File("keep", TRUE)]

\* a read-only earlier output, and no /dev/null
LockedFs == [BaseFs EXCEPT !["/d/a"] = File("old", FALSE)]

FileSystems == {FreshFs, UsedFs, LockedFs}

(***************************************************************************)
(* Requests.                                                               *)
(***************************************************************************)
None    == <<>>
Some(v) == <<v>>
Opt(S)  == {None} \cup {Some(v) : v \in S}

Counts     == {-1, 0, MaxCount}
Vals       == 0..MaxVal
Separators == {"", ","}
Paths      == {"/d/a", "/d", "/x/a", "/f/a", "/r/a", "/d/.write_test", "-b",
               "/dev/null", "nul", "./nul", "/dev//null"}
ExePaths   == {"easyquantis", "/opt/easyquantis"}

Request(k, c, path, lo, hi, sep) ==
    [kind |-> k, count |-> c, output_path |-> path, min_val |-> lo, max_val |-> hi, separator |-> sep]

NoRequest == Request("none", 0, "", None, None, None)

BinaryRequests == {Request("binary", c, path, None, None, None) : c \in Counts, path \in Paths}

BoundedRequests(k) ==
    [kind : {k}, count : Counts, output_path : Paths,
     min_val : Opt(Vals), max_val : Opt(Vals), separator : Opt(Separators)]

(***************************************************************************)
(* Results, exceptions (src/pysyquantis/exceptions.py) and the record of   *)
(* what a call did.                                                        *)
(***************************************************************************)
QuantisValidationError == "QuantisValidationError"
QuantisNotFoundError   == "QuantisNotFoundError"
QuantisExecutionError  == "QuantisExecutionError"

Pending        == [state |-> "pending", exc |-> "", msg |-> "", value |-> "None"]
Returned(v)    == [state |-> "returned", exc |-> "", msg |-> "", value |-> v]
Raised(e, m)   == [state |-> "raised", exc |-> e, msg |-> m, value |-> "None"]

Event(e, path, cmd) == [ev |-> e, path |-> path, cmd |-> cmd]

NoProc == [started |-> FALSE, error |-> "", returncode |-> 0, stdout |-> "", stderr |-> ""]

\* an is_ready that only catches QuantisNotFoundError
IsReadyResult_NotFoundOnly(inner) ==
    IF inner.state = "returned" THEN Returned("True")
    ELSE IF inner.exc = QuantisNotFoundError THEN Returned("False")
    ELSE inner

\* is_ready's try/except around generate_binary
IsReadyResult(inner) ==
    IF inner.state = "returned" THEN Returned("True")
    ELSE IF inner.exc \in {QuantisNotFoundError, QuantisExecutionError} THEN Returned("False")
    ELSE inner

\* what the caller of operation o sees when the generation call ends as inner
Visible(o, inner) == IF o = "is_ready" THEN IsReadyResult(inner) ELSE inner

\* the call of caller p ends
Finish(p, o, inner) ==
    /\ pc' = [pc EXCEPT ![p] = "done"]
    /\ result' = [result EXCEPT ![p] = Visible(o, inner)]

Goto(p, label) ==
    /\ pc' = [pc EXCEPT ![p] = label]
    /\ UNCHANGED result

Log(p, e) == trace' = [trace EXCEPT ![p] = Append(@, e)]

NullPaths == {"/dev/null", "nul"}

\* a command line invocation: its command, its parsed arguments, and its
\* exit code (-1 while it runs) with the lines echoed to stdout and stderr
Invocation(c, r, code, out, err) ==
    [command |-> c, params |-> r, exit_code |-> code, out |-> out, err |-> err]

NoCli == Invocation("none", NoRequest, -1, <<>>, <<>>)

Init ==
    /\ usb_device_index \in 0..MaxDevice
    /\ easyquantis_path \in ExePaths
    /\ test_mode \in BOOLEAN
    /\ fs \in FileSystems
    /\ pc = [p \in Callers |-> "idle"]
    /\ op = [p \in Callers |-> "none"]
    /\ req = [p \in Callers |-> NoRequest]
    /\ args = [p \in Callers |-> <<>>]
    /\ idx = [p \in Callers |-> 0]
    /\ trace = [p \in Callers |-> <<>>]
    /\ proc = [p \in Callers |-> NoProc]
    /\ result = [p \in Callers |-> Pending]
    /\ prev = [p \in Callers |-> Pending]
    /\ cli = [p \in Callers |-> NoCli]
    /\ fs0 = [p \in Callers |-> EmptyFs]

(***************************************************************************)
(* The public operations: each starts a call, and does what                *)
(* _validate_inputs does before it first looks at the file system.         *)
(***************************************************************************)
\* a count check that lets zero through
BadCount_NegativeOnly(count) == count < 0

\* if count <= 0: raise
BadCount(count) == count <= 0

\* str(path) in ["/dev/null", "nul"]: validation skips the path checks
SkipsPathChecks(output_path) == PathStr(output_path) \in NullPaths

\* _validate_inputs, the count check and the bypass of the special paths
Start(p, o, r) ==
    /\ fs0' = [fs0 EXCEPT ![p] = fs]
    /\ op' = [op EXCEPT ![p] = o]
    /\ req' = [req EXCEPT ![p] = r]
    /\ args' = [args EXCEPT ![p] = <<>>]
    /\ idx' = [idx EXCEPT ![p] = 0]
    /\ trace' = [trace EXCEPT ![p] = <<>>]
    /\ proc' = [proc EXCEPT ![p] = NoProc]
    /\ IF BadCount(r.count)
       THEN Finish(p, o, Raised(QuantisValidationError, "Count must be positive"))
       ELSE IF SkipsPathChecks(r.output_path)
       THEN pc' = [pc EXCEPT ![p] = "build"] /\ result' = [result EXCEPT ![p] = Pending]
       ELSE pc' = [pc EXCEPT ![p] = "check_path"] /\ result' = [result EXCEPT ![p] = Pending]
    /\ UNCHANGED <<config, fs>>

\* a call by a caller that has none under way
Enter(p, o, r) ==
    /\ pc[p] = "idle"
    /\ Start(p, o, r)
    /\ prev' = [prev EXCEPT ![p] = Pending]
    /\ UNCHANGED cli

generate_binary(p, count, output_path) ==
    Enter(p, "generate_binary", Request("binary", count, output_path, None, None, None))

generate_integers(p, count, output_path, min_val, max_val, separator) ==
    Enter(p, "generate_integers", Request("integer", count, output_path, min_val, max_val, separator))

generate_floats(p, count, output_path, min_val, max_val, separator) ==
    Enter(p, "generate_floats", Request("float", count, output_path, min_val, max_val, separator))

is_ready(p) ==
    IF test_mode
    THEN /\ pc[p] = "idle"
         /\ op' = [op EXCEPT ![p] = "is_ready"]
         /\ req' = [req EXCEPT ![p] = NoRequest]
         /\ args' = [args EXCEPT ![p] = <<>>]
         /\ idx' = [idx EXCEPT ![p] = 0]
         /\ trace' = [trace EXCEPT ![p] = <<>>]
         /\ proc' = [proc EXCEPT ![p] = NoProc]
         /\ Finish(p, "is_ready", Returned("True"))
         /\ fs0' = [fs0 EXCEPT ![p] = fs]
         /\ UNCHANGED <<config, fs, prev, cli>>
    ELSE Enter(p, "is_ready",
               Request("binary", 1, IF Exists(fs, "/dev/null") THEN "/dev/null" ELSE "nul",
                       None, None, None))

(***************************************************************************)
(* _validate_inputs, from the first look at the file system on.            *)
(***************************************************************************)
\* a directory check that tests is_file() in place of is_dir()
PathIsDirectory_IsFile(f, output_path) ==
    Exists(f, PathStr(output_path)) /\ Lookup(f, Resolve(PathStr(output_path))).type = "file"

\* path.exists() and path.is_dir()
PathIsDirectory(f, output_path) ==
    Exists(f, PathStr(output_path)) /\ IsDir(f, PathStr(output_path))

DirectoryMessage(output_path) ==
    "Output path is a directory: " \o output_path \o ". Please specify a filename."

\* a validation that compares the bounds before it looks at the path
CheckPathIsDir_BoundsFirst(p) ==
    /\ pc[p] = "check_path"
    /\ IF req[p].kind \in {"integer", "float"} /\ req[p].min_val # None /\ req[p].max_val # None
          /\ req[p].min_val[1] >= req[p].max_val[1]
       THEN Finish(p, op[p], Raised(QuantisValidationError,
                                    "Minimum value must be less than maximum value"))
       ELSE IF PathIsDirectory(fs, req[p].output_path)
       THEN Finish(p, op[p], Raised(QuantisValidationError, DirectoryMessage(req[p].output_path)))
       ELSE Goto(p, "check_parent")
    /\ UNCHANGED <<config, prev, cli, fs0, fs, op, req, args, idx, trace, proc>>

\* if path.exists() and path.is_dir(): raise
CheckPathIsDir(p) ==
    /\ pc[p] = "check_path"
    /\ IF PathIsDirectory(fs, req[p].output_path)
       THEN Finish(p, op[p], Raised(QuantisValidationError, DirectoryMessage(req[p].output_path)))
       ELSE Goto(p, "check_parent")
    /\ UNCHANGED <<config, prev, cli, fs0, fs, op, req, args, idx, trace, proc>>

\* a message that names the output path in place of its parent
MissingParentMessage_NamesPath(output_path) == "Directory does not exist: " \o output_path

MissingParentMessage(output_path) == "Directory does not exist: " \o ParentStr(output_path)

\* if not parent.exists(): raise
CheckParentExists(p) ==
    /\ pc[p] = "check_parent"
    /\ IF ~Exists(fs, ParentStr(req[p].output_path))
       THEN Finish(p, op[p], Raised(QuantisValidationError, MissingParentMessage(req[p].output_path)))
       ELSE Goto(p, "check_parent_dir")
    /\ UNCHANGED <<config, prev, cli, fs0, fs, op, req, args, idx, trace, proc>>

\* if not parent.is_dir(): raise
CheckParentIsDir(p) ==
    /\ pc[p] = "check_parent_dir"
    /\ LET parent == ParentStr(req[p].output_path) IN
       IF ~IsDir(fs, parent)
       THEN Finish(p, op[p], Raised(QuantisValidationError, "Parent path is not a directory: " \o parent))
       ELSE Goto(p, "probe_touch")
    /\ UNCHANGED <<config, prev, cli, fs0, fs, op, req, args, idx, trace, proc>>

\* what the except clause of the write probe raises
NoWritePermission(path) ==
    Raised(QuantisValidationError, "No write permission for directory: " \o ParentStr(path))

\* test_file.touch()
ProbeTouch(p) ==
    /\ pc[p] = "probe_touch"
    /\ LET marker == MarkerStr(req[p].output_path)
           t      == Touch(fs, marker)
       IN  IF t.err # ""
           THEN /\ Finish(p, op[p], NoWritePermission(req[p].output_path))
                /\ UNCHANGED <<fs, trace>>
           ELSE /\ fs' = t.fs
                /\ Log(p, Event("touch", Resolve(marker), <<>>))
                /\ Goto(p, "probe_unlink")
    /\ UNCHANGED <<config, prev, cli, fs0, op, req, args, idx, proc>>

\* test_file.unlink()
ProbeUnlink(p) ==
    /\ pc[p] = "probe_unlink"
    /\ LET marker == MarkerStr(req[p].output_path)
           u      == Unlink(fs, marker)
       IN  IF u.err # ""
           THEN /\ Finish(p, op[p], NoWritePermission(req[p].output_path))
                /\ UNCHANGED <<fs, trace>>
           ELSE /\ fs' = u.fs
                /\ Log(p, Event("unlink", Resolve(marker), <<>>))
                /\ Goto(p, "build")
    /\ UNCHANGED <<config, prev, cli, fs0, op, req, args, idx, proc>>

(***************************************************************************)
(* The bounds check and the argument list.                                 *)
(***************************************************************************)
KindFlag(k) == IF k = "binary" THEN "-b" ELSE IF k = "integer" THEN "-i" ELSE "-f"

\* str(min_val), str(max_val): an int for integers, a float (in tenths) for floats
NumStr(k, v) == IF k = "float" THEN FloatStr(v) ELSE Str(v)

\* a bounds check that lets min == max through
BadBounds_Strict(r) ==
    /\ r.kind \in {"integer", "float"}
    /\ r.min_val # None
    /\ r.max_val # None
    /\ r.min_val[1] > r.max_val[1]

\* min_val is not None and max_val is not None and min_val >= max_val
BadBounds(r) ==
    /\ r.kind \in {"integer", "float"}
    /\ r.min_val # None
    /\ r.max_val # None
    /\ r.min_val[1] >= r.max_val[1]

\* an argument list built on truthiness: 0 and "" count as not supplied
ArgList_Truthy(r) ==
    <<KindFlag(r.kind), r.output_path, "-n", Str(r.count)>>
    \o (IF r.min_val # None /\ r.min_val # Some(0) THEN <<"--min", NumStr(r.kind, r.min_val[1])>> ELSE <<>>)
    \o (IF r.max_val # None /\ r.max_val # Some(0) THEN <<"--max", NumStr(r.kind, r.max_val[1])>> ELSE <<>>)
    \o (IF r.separator # None /\ r.separator # Some("") THEN <<"-s", r.separator[1]>> ELSE <<>>)

\* args of the request
ArgList(r) ==
    <<KindFlag(r.kind), r.output_path, "-n", Str(r.count)>>
    \o (IF r.min_val # None THEN <<"--min", NumStr(r.kind, r.min_val[1])>> ELSE <<>>)
    \o (IF r.max_val # None THEN <<"--max", NumStr(r.kind, r.max_val[1])>> ELSE <<>>)
    \o (IF r.separator # None THEN <<"-s", r.separator[1]>> ELSE <<>>)

BuildArgs(p) ==
    /\ pc[p] = "build"
    /\ IF BadBounds(req[p])
       THEN /\ Finish(p, op[p], Raised(QuantisValidationError,
                                       "Minimum value must be less than maximum value"))
            /\ UNCHANGED args
       ELSE /\ args' = [args EXCEPT ![p] = ArgList(req[p])]
            /\ Goto(p, "execute")
    /\ UNCHANGED <<config, prev, cli, fs0, fs, op, req, idx, trace, proc>>

(***************************************************************************)
(* _execute_command.                                                       *)
(***************************************************************************)
\* cmd = [self.easyquantis_path, "-u", str(self.usb_device_index)] + args
Command(a) == <<easyquantis_path, "-u", Str(usb_device_index)>> \o a

\* what subprocess.run can do: fail to start the program, or run it to its exit
SpawnOutcomes ==
    [started : {FALSE}, error : {"FileNotFoundError", "PermissionError"},
     returncode : {0}, stdout : {""}, stderr : {""}]
    \cup
    [started : {TRUE}, error : {""}, returncode : {0, 1},
     stdout : {"", "ok"}, stderr : {"", "Device not found"}]

NotFoundMessage == "easyquantis executable not found: " \o easyquantis_path

\* an execution message that drops the captured error text
ExecutionMessage_NoStderr(cmd, stderr) == "Command failed: " \o Join(cmd, " ")

ExecutionMessage(cmd, stderr) == "Command failed: " \o Join(cmd, " ") \o "\nError: " \o stderr

\* a classification without the except FileNotFoundError clause
Classify_Uncaught(o, cmd) ==
    IF o.error # "" THEN Raised(o.error, "")
    ELSE IF o.returncode # 0 THEN Raised(QuantisExecutionError, ExecutionMessage(cmd, o.stderr))
    ELSE Returned("None")

\* a classification that also takes output on standard error for a failure
Classify_StderrFails(o, cmd) ==
    IF o.error = "FileNotFoundError" THEN Raised(QuantisNotFoundError, NotFoundMessage)
    ELSE IF o.error # "" THEN Raised(o.error, "")
    ELSE IF o.returncode # 0 \/ o.stderr # ""
    THEN Raised(QuantisExecutionError, ExecutionMessage(cmd, o.stderr))
    ELSE Returned("None")

\* how _execute_command ends after subprocess.run did o
Classify(o, cmd) ==
    IF o.error = "FileNotFoundError" THEN Raised(QuantisNotFoundError, NotFoundMessage)
    ELSE IF o.error # "" THEN Raised(o.error, "")
    ELSE IF o.returncode # 0 THEN Raised(QuantisExecutionError, ExecutionMessage(cmd, o.stderr))
    ELSE Returned("None")

\* a spawn that does not look at test_mode
Spawn_InAnyMode(p) ==
    /\ pc[p] = "execute"
    /\ \E o \in SpawnOutcomes :
          /\ proc' = [proc EXCEPT ![p] = o]
          /\ Log(p, Event("spawn", "", Command(args[p])))
          /\ Finish(p, op[p], Classify(o, Command(args[p])))
    /\ UNCHANGED <<config, prev, cli, fs0, fs, op, req, args, idx>>

\* a spawn that tries again after a failure
Spawn_Retrying(p) ==
    /\ pc[p] = "execute"
    /\ ~test_mode
    /\ \E o \in SpawnOutcomes :
          /\ proc' = [proc EXCEPT ![p] = o]
          /\ Log(p, Event("spawn", "", Command(args[p])))
          /\ IF o.error # "" \/ o.returncode # 0
             THEN Goto(p, "execute")
             ELSE Finish(p, op[p], Classify(o, Command(args[p])))
    /\ UNCHANGED <<config, prev, cli, fs0, fs, op, req, args, idx>>

\* normal mode
Spawn(p) ==
    /\ pc[p] = "execute"
    /\ ~test_mode
    /\ \E o \in SpawnOutcomes :
          /\ proc' = [proc EXCEPT ![p] = o]
          /\ Log(p, Event("spawn", "", Command(args[p])))
          /\ Finish(p, op[p], Classify(o, Command(args[p])))
    /\ UNCHANGED <<config, prev, cli, fs0, fs, op, req, args, idx>>

RandLo == 1000
RandHi == 9999

\* random.randint(lo, hi), sampled at the two ends of its range
RandInt(lo, hi) == {lo, hi}

\* placeholder content without its prefix
PlaceholderData_Bare(n) == Str(n)

PlaceholderData(n) == "test_data_" \o Str(n)

\* a scan that writes to the special paths too
Qualifies_AnyPath(a, i) ==
    /\ a[i] \in {"-b", "-i", "-f"}
    /\ i + 1 <= Len(a)

\* arg in ["-b", "-i", "-f"] and i + 1 < len(args), and the path after it is
\* not a special one
Qualifies(a, i) ==
    /\ a[i] \in {"-b", "-i", "-f"}
    /\ i + 1 <= Len(a)
    /\ a[i + 1] \notin {"/dev/null", "nul"}

\* the first position from i on at which the scan writes a file, 0 if none
NextWrite(a, i) ==
    LET S == {j \in i..Len(a) : Qualifies(a, j)}
    IN  IF S = {} THEN 0 ELSE CHOOSE j \in S : \A k \in S : j <= k

\* test mode: the scan of args up to and including its next write
WritePlaceholder(p) ==
    /\ pc[p] = "execute"
    /\ test_mode
    /\ LET j == NextWrite(args[p], idx[p] + 1) IN
       IF j = 0
       THEN /\ Finish(p, op[p], Returned("None"))
            /\ UNCHANGED <<fs, idx, trace>>
       ELSE \E n \in RandInt(RandLo, RandHi) :
               LET w == OpenWrite(fs, args[p][j + 1], PlaceholderData(n)) IN
               IF w.err # ""
               THEN /\ Finish(p, op[p], Raised(w.err, ""))
                    /\ UNCHANGED <<fs, idx, trace>>
               ELSE /\ fs' = w.fs
                    /\ Log(p, Event("write", Resolve(args[p][j + 1]), <<>>))
                    /\ idx' = [idx EXCEPT ![p] = j]
                    /\ IF NextWrite(args[p], j + 1) = 0
                       THEN Finish(p, op[p], Returned("None"))
                       ELSE Goto(p, "execute")
    /\ UNCHANGED <<config, prev, cli, fs0, op, req, args, proc>>

\* the caller takes the result and is free to call again
Return(p) ==
    /\ pc[p] = "done"
    /\ pc' = [pc EXCEPT ![p] = "idle"]
    /\ op' = [op EXCEPT ![p] = "none"]
    /\ req' = [req EXCEPT ![p] = NoRequest]
    /\ args' = [args EXCEPT ![p] = <<>>]
    /\ idx' = [idx EXCEPT ![p] = 0]
    /\ trace' = [trace EXCEPT ![p] = <<>>]
    /\ proc' = [proc EXCEPT ![p] = NoProc]
    /\ result' = [result EXCEPT ![p] = Pending]
    /\ prev' = [prev EXCEPT ![p] = Pending]
    /\ fs0' = [fs0 EXCEPT ![p] = EmptyFs]
    /\ UNCHANGED <<config, fs, cli>>

\* the caller makes the call it has just made once more, with the same arguments
Repeat(p) ==
    /\ pc[p] = "done"
    /\ op[p] \in {"generate_binary", "generate_integers", "generate_floats"}
    /\ Start(p, op[p], req[p])
    /\ prev' = [prev EXCEPT ![p] = result[p]]
    /\ UNCHANGED cli

\* one step of the call caller p has under way
Step(p) ==
    \/ CheckPathIsDir(p)
    \/ CheckParentExists(p)
    \/ CheckParentIsDir(p)
    \/ ProbeTouch(p)
    \/ ProbeUnlink(p)
    \/ BuildArgs(p)
    \/ Spawn(p)
    \/ WritePlaceholder(p)

(***************************************************************************)
(* One caller, one call, any request.                                      *)
(***************************************************************************)
Next ==
    \/ \E c \in Counts, path \in Paths : generate_binary(1, c, path)
    \/ \E r \in BoundedRequests("integer") :
          generate_integers(1, r.count, r.output_path, r.min_val, r.max_val, r.separator)
    \/ \E r \in BoundedRequests("float") :
          generate_floats(1, r.count, r.output_path, r.min_val, r.max_val, r.separator)
    \/ is_ready(1)
    \/ Step(1)

Spec == Init /\ [][Next]_vars

(***************************************************************************)
(* One caller, call after call.                                            *)
(***************************************************************************)
SeqPaths == {"/d/a", "/d/.write_test", "/x/a", "/dev/null"}

\* all options left out, all supplied and in order, bounds out of order
SeqOptions == {<<None, None, None>>, <<Some(0), Some(MaxVal), Some(",")>>, <<Some(MaxVal), Some(0), None>>}

NextSeq ==
    \/ \E c \in {0, MaxCount}, path \in SeqPaths : generate_binary(1, c, path)
    \/ \E path \in SeqPaths, o \in SeqOptions : generate_integers(1, MaxCount, path, o[1], o[2], o[3])
    \/ \E path \in SeqPaths, o \in SeqOptions : generate_floats(1, MaxCount, path, o[1], o[2], o[3])
    \/ is_ready(1)
    \/ Step(1)
    \/ Return(1)
    \/ Repeat(1)

SpecSeq == Init /\ [][NextSeq]_vars

(***************************************************************************)
(* Two callers at once, one call each, every request one that passes       *)
(* validation when it runs alone: a positive count, an output file in the  *)
(* writable directory /d, bounds in order.                                 *)
(***************************************************************************)
ConcPaths == {"/d/a", "/d/b"}

NextConc ==
    \E p \in Callers :
        \/ \E path \in ConcPaths : generate_binary(p, MaxCount, path)
        \/ \E path \in ConcPaths : generate_integers(p, MaxCount, path, Some(0), Some(MaxVal), None)
        \/ \E path \in ConcPaths : generate_floats(p, MaxCount, path, None, None, Some(","))
        \/ is_ready(p)
        \/ Step(p)

SpecConc == Init /\ [][NextConc]_vars

(***************************************************************************)
(* The command line front end (src/pysyquantis/cli.py): one invocation of  *)
(* check, bin, integer or floats.  The command parses its arguments, makes *)
(* a generator with the default device and executable, calls it, and exits *)
(* after echoing what happened.  The echoed lines are kept without their   *)
(* leading check mark or cross.                                            *)
(***************************************************************************)
AbortExit == 1      \* exit code of a command ended by click.Abort
UsageExit == 2      \* exit code of a command whose arguments click rejects

UpperCase == "ABCDEFGHIJKLMNOPQRSTUVWXYZ"
LowerCase == "abcdefghijklmnopqrstuvwxyz"

LowerChar(c) ==
    IF \E i \in 1..Len(UpperCase) : CharAt(UpperCase, i) = c
    THEN CharAt(LowerCase, CHOOSE i \in 1..Len(UpperCase) : CharAt(UpperCase, i) = c)
    ELSE c

RECURSIVE LowerFrom(_, _)
LowerFrom(s, i) == IF i > Len(s) THEN "" ELSE LowerChar(CharAt(s, i)) \o LowerFrom(s, i + 1)

\* str.lower()
Lower(s) == LowerFrom(s, 1)

PathHint == "Hint: Make sure the output path is a valid file (not a directory) and the parent directory exists."
RangeHint == "Hint: Make sure --min is less than --max."
InstallHint == "Hint: Make sure 'easyquantis' is installed and available in your PATH."
DeviceHint == "Hint: Make sure 'easyquantis' is installed, in your PATH, and a Quantis device is connected."

ModeText == IF test_mode THEN " (test mode)" ELSE ""

Unit(c) == IF c = "bin" THEN "bytes" ELSE IF c = "integer" THEN "integers" ELSE "floats"

RangeInfo(r) ==
    IF r.min_val # None /\ r.max_val # None
    THEN " (range: " \o NumStr(r.kind, r.min_val[1]) \o "-" \o NumStr(r.kind, r.max_val[1]) \o ")"
    ELSE ""

\* the hint the except QuantisValidationError clause of command c echoes
ValidationHint(c, msg) ==
    IF c # "bin" /\ Contains(Lower(msg), "minimum") /\ Contains(Lower(msg), "maximum")
    THEN RangeHint
    ELSE PathHint

\* a bin, integer or floats command whose except clauses echo and return
GenOutcome_NoAbort(c, r, res) ==
    IF res.state = "returned"
    THEN Invocation(c, r, 0,
                    <<"Generated " \o Str(r.count) \o " " \o Unit(c) \o " to " \o r.output_path
                        \o RangeInfo(r) \o ModeText>>, <<>>)
    ELSE Invocation(c, r, 0, <<>>, <<"Error: " \o res.msg>>)

\* the try/except of bin, integer and floats around the generator call that
\* ended as res
GenOutcome(c, r, res) ==
    IF res.state = "returned"
    THEN Invocation(c, r, 0,
                    <<"Generated " \o Str(r.count) \o " " \o Unit(c) \o " to " \o r.output_path
                        \o RangeInfo(r) \o ModeText>>, <<>>)
    ELSE IF res.exc = QuantisValidationError
    THEN Invocation(c, r, AbortExit, <<>>,
                    <<"Validation error: " \o res.msg, ValidationHint(c, res.msg)>>)
    ELSE IF res.exc \in {QuantisNotFoundError, QuantisExecutionError}
    THEN Invocation(c, r, AbortExit, <<>>,
                    <<"Error: " \o res.msg>>
                    \o (IF Contains(Lower(res.msg), "not found") THEN <<InstallHint>> ELSE <<>>))
    ELSE Invocation(c, r, AbortExit, <<>>, <<"Unexpected error: " \o res.msg>>)

\* the try/except of check around is_ready; the Abort raised in the else
\* branch is itself caught by except Exception, and its text is empty
CheckOutcome(r, res) ==
    IF res.state = "returned" /\ res.value = "True"
    THEN Invocation("check", r, 0,
                    <<"easyquantis is ready and device is accessible" \o ModeText>>, <<>>)
    ELSE IF res.state = "returned"
    THEN Invocation("check", r, AbortExit,
                    <<"easyquantis is not accessible or device not ready">>,
                    (IF test_mode THEN <<>> ELSE <<DeviceHint>>) \o <<"Error during check: ">>)
    ELSE Invocation("check", r, AbortExit, <<>>, <<"Error during check: " \o res.msg>>)

Outcome(c, r, res) == IF c = "check" THEN CheckOutcome(r, res) ELSE GenOutcome(c, r, res)

\* the command line is parsed: click.IntRange(min=1) rejects a count below 1
\* before the command body runs; the generator the body makes has the
\* default device and executable, and test mode when --test is given
Invoke(p, c, r) ==
    /\ cli[p] = NoCli
    /\ pc[p] = "idle"
    /\ usb_device_index = 0
    /\ easyquantis_path = "easyquantis"
    /\ cli' = [cli EXCEPT ![p] =
                  IF c # "check" /\ r.count < 1
                  THEN Invocation(c, r, UsageExit, <<>>, <<"Error: Invalid value for 'COUNT'">>)
                  ELSE Invocation(c, r, -1, <<>>, <<>>)]
    /\ UNCHANGED <<config, fs, pc, op, req, args, idx, trace, proc, result, prev, fs0>>

check(p) == Invoke(p, "check", NoRequest)

bin(p, count, output_path) ==
    Invoke(p, "bin", Request("binary", count, output_path, None, None, None))

integer(p, count, output_path, min, max, separator) ==
    Invoke(p, "integer", Request("integer", count, output_path, min, max, separator))

floats(p, count, output_path, min, max, separator) ==
    Invoke(p, "floats", Request("float", count, output_path, min, max, separator))

\* the command body calls the generator
Body(p) ==
    /\ cli[p].exit_code = -1
    /\ LET c == cli[p].command
           r == cli[p].params
       IN  CASE c = "check"   -> is_ready(p)
             [] c = "bin"     -> generate_binary(p, r.count, r.output_path)
             [] c = "integer" -> generate_integers(p, r.count, r.output_path,
                                                   r.min_val, r.max_val, r.separator)
             [] c = "floats"  -> generate_floats(p, r.count, r.output_path,
                                                 r.min_val, r.max_val, r.separator)
             [] OTHER         -> FALSE

\* the generator call is over: the command echoes and exits
Exit(p) ==
    /\ cli[p].command # "none"
    /\ cli[p].exit_code = -1
    /\ pc[p] = "done"
    /\ cli' = [cli EXCEPT ![p] = Outcome(cli[p].command, cli[p].params, result[p])]
    /\ UNCHANGED <<config, fs, pc, op, req, args, idx, trace, proc, result, prev, fs0>>

CliPaths == {"/d/a", "/d", "/x/a", "/r/a", "/dev/null"}

NextCli ==
    \/ check(1)
    \/ \E c \in {0, MaxCount}, path \in CliPaths : bin(1, c, path)
    \/ \E path \in CliPaths, o \in SeqOptions : integer(1, MaxCount, path, o[1], o[2], o[3])
    \/ \E path \in CliPaths, o \in SeqOptions : floats(1, MaxCount, path, o[1], o[2], o[3])
    \/ Body(1)
    \/ Step(1)
    \/ Exit(1)

SpecCli == Init /\ [][NextCli]_vars

(***************************************************************************)
(* Properties.                                                             *)
(***************************************************************************)
GenerationOps == {"generate_binary", "generate_integers", "generate_floats"}

Ended(p) == pc[p] = "done"

\* the positions of the events of kind e in the record of p's call
Events(p, e) == {i \in 1..Len(trace[p]) : trace[p][i].ev = e}

ValidationFailed(p) == result[p].state = "raised" /\ result[p].exc = QuantisValidationError

OrderingMessage == "Minimum value must be less than maximum value"

BoundsOutOfOrder(p) ==
    /\ op[p] \in {"generate_integers", "generate_floats"}
    /\ req[p].min_val # None
    /\ req[p].max_val # None
    /\ req[p].min_val[1] >= req[p].max_val[1]

\* the path checks of p's call are behind it: skipped, or through the probe
PathChecksPassed(p) ==
    \/ PathStr(req[p].output_path) \in {"/dev/null", "nul"}
    \/ /\ Len(trace[p]) >= 2
       /\ trace[p][1].ev = "touch"
       /\ trace[p][2].ev = "unlink"

\* the argument vector the interface promises for request r
OptionPair(flag, v, text) == IF v = None THEN <<>> ELSE <<flag, text>>

ExpectedArgv(r) ==
    <<easyquantis_path, "-u", Str(usb_device_index),
      CASE r.kind = "binary" -> "-b" [] r.kind = "integer" -> "-i" [] r.kind = "float" -> "-f",
      r.output_path, "-n", Str(r.count)>>
    \o OptionPair("--min", r.min_val, IF r.min_val = None THEN "" ELSE NumStr(r.kind, r.min_val[1]))
    \o OptionPair("--max", r.max_val, IF r.max_val = None THEN "" ELSE NumStr(r.kind, r.max_val[1]))
    \o OptionPair("-s", r.separator, IF r.separator = None THEN "" ELSE r.separator[1])

\* C1: a generation call with count <= 0 ends at once with ValidationError
\* "Count must be positive", having spawned no process and created, touched
\* or removed no file
C1_NonPositiveCountRejectedFirst ==
    \A p \in Callers :
        (op[p] \in GenerationOps /\ req[p].count <= 0) =>
            /\ Ended(p)
            /\ result[p] = Raised(QuantisValidationError, "Count must be positive")
            /\ trace[p] = <<>>
            /\ proc[p] = NoProc
            /\ fs \in FileSystems

C1_Witness ==
    /\ Ended(1)
    /\ op[1] = "generate_floats"
    /\ req[1].count = 0
    /\ req[1].output_path = "/d/a"
    /\ test_mode
    /\ ValidationFailed(1)

\* C2 as stated: a call with both bounds supplied and min >= max ends with the
\* ValidationError that names the ordering violation, whatever the count
C2_OrderingNamedWhateverTheCount ==
    \A p \in Callers :
        (Ended(p) /\ BoundsOutOfOrder(p)) =>
            result[p] = Raised(QuantisValidationError, OrderingMessage)

\* C2 amended: such a call always ends with a ValidationError; its message
\* names the ordering violation exactly when the count is positive and the
\* path checks are passed (or skipped for a special path)
C2_OrderingNamedAfterEarlierChecks ==
    \A p \in Callers :
        (BoundsOutOfOrder(p) /\ pc[p] # "idle") =>
            /\ pc[p] # "execute"
            /\ Ended(p) =>
                /\ ValidationFailed(p)
                /\ (result[p].msg = OrderingMessage) <=> (req[p].count > 0 /\ PathChecksPassed(p))

C2_Witness ==
    /\ Ended(1)
    /\ op[1] = "generate_integers"
    /\ req[1].min_val = Some(1)
    /\ req[1].max_val = Some(1)
    /\ req[1].count > 0
    /\ req[1].output_path = "/d/a"
    /\ result[1] = Raised(QuantisValidationError, OrderingMessage)

\* C3: calls that each pass validation alone do not make each other fail
\* validation when they run at the same time
C3_ConcurrentCallsIndependent ==
    \A p \in Callers : Ended(p) => ~ValidationFailed(p)

C5_ExecutionErrorCarriesCommandAndStderr ==
    \A p \in Callers :
        (Ended(p) /\ op[p] \in GenerationOps /\ proc[p].started /\ proc[p].returncode # 0) =>
            /\ result[p].state = "raised"
            /\ result[p].exc = QuantisExecutionError
            /\ Contains(result[p].msg, Join(ExpectedArgv(req[p]), " "))
            /\ Contains(result[p].msg, proc[p].stderr)
            /\ proc[p].stderr # "" =>
                   SubSeq(result[p].msg, Len(result[p].msg) - Len(proc[p].stderr) + 1,
                          Len(result[p].msg)) = proc[p].stderr

C5_Witness ==
    /\ Ended(1)
    /\ op[1] = "generate_integers"
    /\ req[1].separator = Some(",")
    /\ req[1].min_val = Some(0)
    /\ proc[1].returncode = 1
    /\ proc[1].stderr = "Device not found"
    /\ result[1].exc = QuantisExecutionError

\* C6: the argument vector handed to the process is the executable, -u and
\* the device index, the kind flag with the output path, -n with the count,
\* then --min, --max and -s, each present exactly when its value was
\* supplied (0 and the empty separator included), and nothing else
C6_ArgumentVectorExact ==
    /\ \A p \in Callers :
          /\ \A i \in Events(p, "spawn") : trace[p][i].cmd = ExpectedArgv(req[p])
          /\ pc[p] = "execute" => Command(args[p]) = ExpectedArgv(req[p])
    /\ (usb_device_index = 0 /\ easyquantis_path = "easyquantis") =>
          /\ Command(ArgList(Request("binary", 1024, "/x/out.bin", None, None, None)))
                = <<"easyquantis", "-u", "0", "-b", "/x/out.bin", "-n", "1024">>
          /\ Command(ArgList(Request("integer", 100, "/x/ints.txt", Some(1), Some(6), Some(","))))
                = <<"easyquantis", "-u", "0", "-i", "/x/ints.txt", "-n", "100",
                    "--min", "1", "--max", "6", "-s", ",">>
          /\ Command(ArgList(Request("float", 50, "/tmp/floats.txt", Some(0), Some(10), Some(" "))))
                = <<"easyquantis", "-u", "0", "-f", "/tmp/floats.txt", "-n", "50",
                    "--min", "0.0", "--max", "1.0", "-s", " ">>

C6_Witness ==
    /\ Ended(1)
    /\ op[1] = "generate_floats"
    /\ req[1].min_val = Some(0)
    /\ req[1].max_val = None
    /\ req[1].separator = Some("")
    /\ Events(1, "spawn") # {}
    /\ Len(trace[1][Len(trace[1])].cmd) = 11

\* C7: a generation call that ends with ValidationError has spawned no
\* process and has not created, touched or written its output file
C7_ValidationFailureLeavesOutputAlone ==
    \A p \in Callers :
        (Ended(p) /\ op[p] \in GenerationOps /\ ValidationFailed(p)) =>
            /\ Events(p, "spawn") = {}
            /\ \A i \in 1..Len(trace[p]) : trace[p][i].path # Resolve(req[p].output_path)

\* C8: outside test mode is_ready makes one generate_binary(1, null path)
\* invocation and returns True when it succeeds, False when it fails with
\* NotFoundError or ExecutionError; neither of the two is ever raised
C8_IsReadyDowngradesFailures ==
    \A p \in Callers :
        (Ended(p) /\ op[p] = "is_ready" /\ ~test_mode) =>
            /\ req[p].output_path \in {"/dev/null", "nul"}
            /\ req[p] = Request("binary", 1, req[p].output_path, None, None, None)
            /\ Len(trace[p]) = 1
            /\ trace[p][1].ev = "spawn"
            /\ trace[p][1].cmd = <<easyquantis_path, "-u", Str(usb_device_index),
                                   "-b", req[p].output_path, "-n", "1">>
            /\ (proc[p].started /\ proc[p].returncode = 0) => result[p] = Returned("True")
            /\ (proc[p].error = "FileNotFoundError" \/ (proc[p].started /\ proc[p].returncode # 0))
                  => result[p] = Returned("False")
            /\ result[p].state = "raised" =>
                  result[p].exc \notin {QuantisNotFoundError, QuantisExecutionError}

C8_Witness ==
    /\ Ended(1)
    /\ op[1] = "is_ready"
    /\ ~test_mode
    /\ proc[1].started
    /\ proc[1].returncode = 1
    /\ result[1] = Returned("False")

\* C9: in test mode no call of any sequence spawns a process, is_ready
\* returns True, and a generation call that has passed validation returns
\* unless the write of the placeholder file fails
C9_TestModeNeverSpawns ==
    test_mode =>
        \A p \in Callers :
            /\ proc[p] = NoProc
            /\ Events(p, "spawn") = {}
            /\ (Ended(p) /\ op[p] = "is_ready") => (result[p] = Returned("True") /\ trace[p] = <<>>)
            /\ (Ended(p) /\ op[p] \in GenerationOps /\ ~ValidationFailed(p)) =>
                  \/ result[p] = Returned("None")
                  \/ /\ result[p].state = "raised"
                     /\ result[p].exc # ""
                     /\ OpenWrite(fs, req[p].output_path, "").err = result[p].exc

\* a second call of a sequence: is_ready after a generation call left its file
C9_Witness ==
    /\ test_mode
    /\ Ended(1)
    /\ op[1] = "is_ready"
    /\ result[1] = Returned("True")
    /\ Lookup(fs, "/d/.write_test").type = "file"
    /\ Lookup(fs, "/d/.write_test").data \notin {"", "keep"}
    /\ Lookup(fs, "/d/a").data # "old"

IsDigit(c) == \E i \in 1..10 : CharAt(Digits, i) = c

\* test_data_ followed by a number of four digits
IsPlaceholder(d) ==
    /\ Len(d) = 14
    /\ SubSeq(d, 1, 10) = "test_data_"
    /\ \A i \in 11..14 : IsDigit(CharAt(d, i))
    /\ CharAt(d, 11) # "0"

\* C10: in test mode a generation call that returns, for an output path that
\* is not a special one, leaves a file at that path holding placeholder data
\* and nothing of what it held before
C10_TestModeWritesPlaceholder ==
    \A p \in Callers :
        (test_mode /\ Ended(p) /\ op[p] \in GenerationOps /\ result[p].state = "returned"
           /\ PathStr(req[p].output_path) \notin {"/dev/null", "nul"}) =>
            LET node == Lookup(fs, Resolve(req[p].output_path)) IN
            /\ node.type = "file"
            /\ IsPlaceholder(node.data)
            /\ Events(p, "write") # {}

\* the file held "old" before the call
C10_Witness ==
    /\ test_mode
    /\ Ended(1)
    /\ op[1] = "generate_binary"
    /\ req[1].output_path = "/d/a"
    /\ result[1].state = "returned"
    /\ Lookup(fs, "/r/.write_test").type = "file"
    /\ Lookup(fs, "/d/a").data = "test_data_9999"

\* C11: in test mode the same generation call made twice in a row ends the
\* second time as it ended the first time, so it succeeds again when it
\* succeeded, and the destination then holds one placeholder, not two
C11_RepeatedCallSucceedsAgain ==
    \A p \in Callers :
        (test_mode /\ Ended(p) /\ op[p] \in GenerationOps /\ prev[p].state # "pending") =>
            /\ result[p] = prev[p]
            /\ (prev[p].state = "returned" /\ PathStr(req[p].output_path) \notin {"/dev/null", "nul"}) =>
                  LET node == Lookup(fs, Resolve(req[p].output_path)) IN
                  /\ node.type = "file"
                  /\ IsPlaceholder(node.data)

C11_Witness ==
    /\ test_mode
    /\ Ended(1)
    /\ op[1] = "generate_binary"
    /\ req[1].output_path = "/d/a"
    /\ prev[1] = Returned("None")
    /\ result[1] = Returned("None")
    /\ Events(1, "write") # {}

\* the probe's marker of p's call is in the file system
MarkerExists(p) == Exists(fs, MarkerStr(req[p].output_path))

\* p's call went through the path checks up to the probe
Probed(p) == op[p] \in GenerationOps /\ ~SkipsPathChecks(req[p].output_path)

\* C12: the probe's marker is gone when validation ends, whether the probe
\* succeeded or failed, and is not there when the process is spawned or the
\* placeholder written
C12_MarkerGoneAfterValidation ==
    \A p \in Callers :
        Probed(p) =>
            /\ pc[p] \in {"build", "execute"} => ~MarkerExists(p)
            /\ (Ended(p) /\ result[p] = NoWritePermission(req[p].output_path)) => ~MarkerExists(p)

\* the node an output path names
OutputNode(p) == Lookup(fs, Resolve(req[p].output_path))

\* C13: a generation call with a positive count whose output path is an
\* existing directory, and not a special path, ends with the ValidationError
\* that calls the path a directory and asks for a filename
C13_DirectoryPathRejected ==
    \A p \in Callers :
        (Probed(p) /\ req[p].count > 0 /\ OutputNode(p).type = "dir") =>
            /\ pc[p] \in {"check_path", "done"}
            /\ Ended(p) =>
                /\ ValidationFailed(p)
                /\ Contains(result[p].msg, "is a directory: " \o req[p].output_path)
                /\ Contains(result[p].msg, "Please specify a filename")
                /\ trace[p] = <<>>

C13_Witness ==
    /\ Ended(1)
    /\ op[1] = "generate_integers"
    /\ req[1].output_path = "/d"
    /\ req[1].count > 0
    /\ ValidationFailed(1)
    /\ result[1].msg = "Output path is a directory: /d. Please specify a filename."

\* the node of the parent directory of p's output path
ParentOfOutput(p) == Lookup(fs, Resolve(ParentStr(req[p].output_path)))

\* C14: a generation call with a positive count whose output path is not
\* a special one and has no parent directory ends with the ValidationError
\* naming the missing directory; no marker and no output file is made
C14_MissingParentRejected ==
    \A p \in Callers :
        (Probed(p) /\ req[p].count > 0 /\ ParentOfOutput(p).type = "absent") =>
            /\ pc[p] \in {"check_path", "check_parent", "done"}
            /\ trace[p] = <<>>
            /\ ~MarkerExists(p)
            /\ OutputNode(p).type = "absent"
            /\ Ended(p) =>
                  result[p] = Raised(QuantisValidationError,
                                     "Directory does not exist: " \o ParentStr(req[p].output_path))

C14_Witness ==
    /\ Ended(1)
    /\ op[1] = "generate_binary"
    /\ req[1].output_path = "/x/a"
    /\ req[1].count > 0
    /\ result[1] = Raised(QuantisValidationError, "Directory does not exist: /x")

\* C15: for the output paths /dev/null and nul no path check is made, so
\* that validation can only fail on the count or the bounds, and in test
\* mode no file is created or written
C15_SpecialPathsBypassed ==
    \A p \in Callers :
        (op[p] \in GenerationOps /\ req[p].output_path \in {"/dev/null", "nul"}) =>
            /\ pc[p] \in {"build", "execute", "done"}
            /\ Events(p, "touch") = {} /\ Events(p, "unlink") = {} /\ Events(p, "write") = {}
            /\ fs \in FileSystems
            /\ (Ended(p) /\ ValidationFailed(p)) =>
                  result[p].msg \in {"Count must be positive", OrderingMessage}
            /\ (Ended(p) /\ test_mode /\ req[p].count > 0 /\ ~BoundsOutOfOrder(p)) =>
                  result[p] = Returned("None")

C15_Witness ==
    /\ test_mode
    /\ Ended(1)
    /\ op[1] = "generate_floats"
    /\ req[1].output_path = "nul"
    /\ req[1].separator = Some(",")
    /\ result[1] = Returned("None")
    /\ Lookup(fs, "nul").type = "absent"

\* C16: in normal mode a generation call that passed validation returns
\* exactly when the process was started and exited with status 0, whatever
\* it wrote to standard output and standard error
C16_ZeroExitIsTheSuccessSignal ==
    \A p \in Callers :
        (~test_mode /\ Ended(p) /\ op[p] \in GenerationOps /\ ~ValidationFailed(p)) =>
            /\ Cardinality(Events(p, "spawn")) = 1
            /\ (result[p].state = "returned") <=> (proc[p].started /\ proc[p].returncode = 0)
            /\ result[p].state = "returned" => result[p] = Returned("None")

C16_Witness ==
    /\ ~test_mode
    /\ Ended(1)
    /\ op[1] = "generate_binary"
    /\ req[1].output_path = "/d/a"
    /\ proc[1].started
    /\ proc[1].returncode = 0
    /\ proc[1].stdout = "ok"
    /\ proc[1].stderr = "Device not found"
    /\ result[1] = Returned("None")

StartsWith(s, prefix) == Len(s) >= Len(prefix) /\ SubSeq(s, 1, Len(prefix)) = prefix

Exited(p) == cli[p].command # "none" /\ cli[p].exit_code # -1 /\ pc[p] = "done"

\* the underlying operation of the command of caller p succeeded
Succeeded(p) ==
    /\ result[p].state = "returned"
    /\ cli[p].command = "check" => result[p].value = "True"

\* the prefix of the error line for the way the operation failed
Category(p) ==
    IF cli[p].command = "check" THEN "Error during check: "
    ELSE IF result[p].exc = QuantisValidationError THEN "Validation error: "
    ELSE IF result[p].exc \in {QuantisNotFoundError, QuantisExecutionError} THEN "Error: "
    ELSE "Unexpected error: "

\* C17: a check, bin, integer or floats command whose generator operation
\* has ended exits with code 0 exactly when the operation succeeded (is_ready
\* returned True for check); otherwise it exits with a non-zero code and has
\* echoed to standard error a line with the prefix of the failure's category
C17_ExitCodeReportsOutcome ==
    \A p \in Callers :
        Exited(p) =>
            /\ (cli[p].exit_code = 0) <=> Succeeded(p)
            /\ Succeeded(p) => cli[p].err = <<>> /\ Len(cli[p].out) = 1
            /\ ~Succeeded(p) =>
                  \E i \in 1..Len(cli[p].err) : StartsWith(cli[p].err[i], Category(p))

C17_Witness ==
    /\ Exited(1)
    /\ cli[1].command = "integer"
    /\ result[1].exc = QuantisExecutionError
    /\ cli[1].exit_code = 1
    /\ cli[1].err[1] = "Error: " \o result[1].msg
    /\ Len(cli[1].err) = 2

\* the first check, in the documented order, that p's request fails
FirstFailing(p) ==
    IF req[p].count <= 0 THEN "count"
    ELSE IF PathStr(req[p].output_path) \in {"/dev/null", "nul"}
    THEN (IF BoundsOutOfOrder(p) THEN "bounds" ELSE "none")
    ELSE IF OutputNode(p).type = "dir" THEN "directory"
    ELSE IF ParentOfOutput(p).type = "absent" THEN "parent missing"
    ELSE IF ParentOfOutput(p).type # "dir" THEN "parent not a directory"
    ELSE IF ~ParentOfOutput(p).writable THEN "parent not writable"
    ELSE IF BoundsOutOfOrder(p) THEN "bounds"
    ELSE "none"

\* how the message of each check begins
CheckMessage(which) ==
    CASE which = "count"                  -> "Count must be positive"
      [] which = "directory"              -> "Output path is a directory: "
      [] which = "parent missing"         -> "Directory does not exist: "
      [] which = "parent not a directory" -> "Parent path is not a directory: "
      [] which = "parent not writable"    -> "No write permission for directory: "
      [] which = "bounds"                 -> OrderingMessage

\* C18: a generation call fails validation exactly when one of the checks
\* count, path is a directory, parent missing, parent not a directory,
\* parent not writable, bounds out of order fails; the error is that of the
\* first failing check in this order; the write probe has not run when an
\* earlier check failed, and nothing is spawned or written after a failure
C18_FirstFailingCheckWins ==
    \A p \in Callers :
        (Ended(p) /\ op[p] \in GenerationOps) =>
            /\ (FirstFailing(p) = "none") <=> ~ValidationFailed(p)
            /\ FirstFailing(p) # "none" =>
                  StartsWith(result[p].msg, CheckMessage(FirstFailing(p)))
            /\ FirstFailing(p) \in {"count", "directory", "parent missing", "parent not a directory"} =>
                  trace[p] = <<>>
            /\ ValidationFailed(p) => Events(p, "spawn") = {} /\ Events(p, "write") = {}

\* an integer call on a directory with the bounds out of order
C18_Witness ==
    /\ Ended(1)
    /\ op[1] = "generate_integers"
    /\ req[1].count > 0
    /\ OutputNode(1).type = "dir"
    /\ BoundsOutOfOrder(1)
    /\ result[1] = Raised(QuantisValidationError, "Output path is a directory: /d. Please specify a filename.")
    /\ trace[1] = <<>>

\* C19: a call spawns the external process at most once, and the spawn is
\* the last thing it does: the call has ended, as an error when the process
\* could not be started or exited with a non-zero status; a generation call
\* in normal mode that passes validation has spawned it exactly once when it
\* ends, and a call in test mode or one that fails validation never spawns
C19_SpawnedAtMostOnce ==
    \A p \in Callers :
        /\ Cardinality(Events(p, "spawn")) <= 1
        /\ Events(p, "spawn") # {} =>
              /\ Ended(p)
              /\ trace[p][Len(trace[p])].ev = "spawn"
              /\ (proc[p].error # "" \/ proc[p].returncode # 0) =>
                    (op[p] \in GenerationOps => result[p].state = "raised")
        /\ (Ended(p) /\ op[p] \in GenerationOps) =>
              (Cardinality(Events(p, "spawn")) = 1 <=> (~test_mode /\ ~ValidationFailed(p)))

\* a call whose process exited with status 1
C19_Witness ==
    /\ ~test_mode
    /\ Ended(1)
    /\ op[1] = "generate_floats"
    /\ proc[1].started
    /\ proc[1].returncode = 1
    /\ result[1].exc = QuantisExecutionError
    /\ Cardinality(Events(1, "spawn")) = 1

\* C20: in test mode a generation call writes placeholder content to no
\* file other than the one its output_path names
C20_OnlyOutputPathWritten ==
    \A p \in Callers :
        (test_mode /\ op[p] \in GenerationOps) =>
            \A i \in Events(p, "write") : trace[p][i].path = Resolve(req[p].output_path)

\* C21: validation and the test-mode executor agree on the null sentinels:
\* a generation call that returns in test mode has written no placeholder
\* exactly when its path checks were bypassed, that is, when the normalized
\* text of its output path is /dev/null or nul
C21_SentinelsAgree ==
    \A p \in Callers :
        (test_mode /\ Ended(p) /\ op[p] \in GenerationOps /\ result[p].state = "returned") =>
            ((PathStr(req[p].output_path) \in {"/dev/null", "nul"}) <=> Events(p, "write") = {})

\* _validate_inputs of p's generation call has returned or raised, and
\* nothing after it has run yet that touches the file system
ValidationOver(p) ==
    /\ op[p] \in GenerationOps
    /\ pc[p] = "build" \/ (Ended(p) /\ ValidationFailed(p))

\* C22: when validation has returned or raised, every file that existed
\* when the call began still exists with the content it had
C22_ValidationPreservesFiles ==
    \A p \in Callers :
        ValidationOver(p) =>
            \A n \in Nodes : fs0[p][n].type = "file" => fs[n] = fs0[p][n]

====
